---- MODULE Spec2Model ----
(***************************************************************************)
(* Model of webp/src/utils/huffman_encode.c: Huffman code construction for *)
(* WebP lossless.  Arrays are sequences; the C index i is the TLA+ index   *)
(* i + 1.                                                                  *)
(***************************************************************************)
EXTENDS Integers, Sequences, FiniteSets, TLC

VARIABLES pc, histogram, hist_in, tree_depth_limit, count_min,
          code_lengths, codes, tokens, pos, prev_value

vars == <<pc, histogram, hist_in, tree_depth_limit, count_min,
          code_lengths, codes, tokens, pos, prev_value>>

\* ------------------------------------------------------------------ bounds
\* Longest histogram of the exhaustive family, and its largest count.
MaxSymbols == 4
MaxCount == 3
\* Length of the histograms of the skewed family (counts 0, 1 or 2^i).
SkewSymbols == 6
\* Largest depth limit tried.
MaxLimit == 5
\* count_min is an int that doubles on every retry; retries stop here.
MaxCountMin == 128
\* Histograms of the smoothing specification: every histogram up to
\* MaxRleLen with counts 0..MaxRleCount, and the histograms of length
\* LongRleLen over three small counts.
MaxRleLen == 5
MaxRleCount == 4
LongRleLen == 9
\* Runs of the tokenizer specification: lengths 1..MaxShortRun, and zero
\* runs around the limits of the zero codes.
MaxShortRun == 8
MaxLongRun == 140

\* --------------------------------------------------------------- helpers
Abs(x) == IF x < 0 THEN -x ELSE x

RECURSIVE Pow2(_)
Pow2(n) == IF n <= 0 THEN 1 ELSE 2 * Pow2(n - 1)

Zeros(n) == [p \in 1..n |-> 0]

\* ---------------------------------------------------- OptimizeHuffmanForRle
ValuesShouldBeCollapsedToStrideAverage(a, b) == Abs(a - b) < 4

\* Step 1: drop trailing zeros; 0 when all counts are zero.
RECURSIVE TrimmedLength(_, _)
TrimmedLength(counts, length) ==
  IF length = 0 THEN 0
  ELSE IF counts[length] # 0 THEN length
  ELSE TrimmedLength(counts, length - 1)

\* Step 2: the loop over i = 0..length that marks runs of >= 5 zeros or
\* >= 7 equal non-zero counts.
RECURSIVE MarkGoodForRle(_, _, _, _, _, _)
MarkGoodForRle(counts, length, i, symbol, stride, good) ==
  IF i >= length + 1 THEN good
  ELSE IF i = length \/ counts[i + 1] # symbol
       THEN LET marked ==
                  IF (symbol = 0 /\ stride >= 5) \/ (symbol # 0 /\ stride >= 7)
                  THEN [p \in 1..length |->
                          IF p - 1 >= i - stride /\ p - 1 <= i - 1
                          THEN 1 ELSE good[p]]
                  ELSE good
            IN MarkGoodForRle(counts, length, i + 1,
                              IF i # length THEN counts[i + 1] ELSE symbol,
                              1, marked)
       ELSE MarkGoodForRle(counts, length, i + 1, symbol, stride + 1, good)

\* A rounding slip: the mean is rounded up by a whole unit.
CollapsedCountMut(sum, stride) ==
  LET count == (sum + stride) \div stride
  IN IF sum = 0 THEN 0 ELSE IF count < 1 THEN 1 ELSE count

\* The floor of 1 for a stride with a non-zero sum is forgotten.
CollapsedCountNoFloor(sum, stride) ==
  IF sum = 0 THEN 0 ELSE (sum + stride \div 2) \div stride

\* The value a closing stride is overwritten with.
CollapsedCount(sum, stride) ==
  LET count == (sum + stride \div 2) \div stride
  IN IF sum = 0 THEN 0 ELSE IF count < 1 THEN 1 ELSE count

\* Step 3: the loop over i = 0..length that collapses strides.
RECURSIVE CollapseStrides(_, _, _, _, _, _, _)
CollapseStrides(counts, length, good, i, stride, limit, sum) ==
  IF i >= length + 1 THEN counts
  ELSE
    LET ends == \/ i = length
                \/ good[i + 1] = 1
                \/ (i # 0 /\ good[i] = 1)
                \/ ~ ValuesShouldBeCollapsedToStrideAverage(counts[i + 1],
                                                            limit)
        collapse == ends /\ (stride >= 4 \/ (stride >= 3 /\ sum = 0))
        counts1 == IF collapse
                   THEN [p \in 1..Len(counts) |->
                           IF p - 1 >= i - stride /\ p - 1 <= i - 1
                           THEN CollapsedCount(sum, stride) ELSE counts[p]]
                   ELSE counts
        stride1 == IF ends THEN 0 ELSE stride
        sum1 == IF ends THEN 0 ELSE sum
        limit1 == IF ~ ends THEN limit
                  ELSE IF i < length - 3
                       THEN (counts1[i + 1] + counts1[i + 2] +
                             counts1[i + 3] + counts1[i + 4] + 2) \div 4
                  ELSE IF i < length THEN counts1[i + 1]
                  ELSE 0
        stride2 == stride1 + 1
        sum2 == IF i # length THEN sum1 + counts1[i + 1] ELSE sum1
        limit2 == IF i # length /\ stride2 >= 4
                  THEN (sum2 + stride2 \div 2) \div stride2
                  ELSE limit1
    IN CollapseStrides(counts1, length, good, i + 1, stride2, limit2, sum2)

OptimizeHuffmanForRle(counts) ==
  LET length == TrimmedLength(counts, Len(counts))
  IN IF length = 0 THEN counts
     ELSE LET good == MarkGoodForRle(counts, length, 0, counts[1], 0,
                                     Zeros(length))
          IN CollapseStrides(counts, length, good, 0, 0, counts[1], 0)

\* ------------------------------------------------------ GenerateOptimalTree
HuffmanTree(count, value, left, right) ==
  [total_count_ |-> count, value_ |-> value,
   pool_index_left_ |-> left, pool_index_right_ |-> right]

CompareHuffmanTrees(t1, t2) ==
  IF t1.total_count_ > t2.total_count_ THEN -1
  ELSE IF t1.total_count_ < t2.total_count_ THEN 1
  ELSE IF t1.value_ < t2.value_ THEN -1
  ELSE IF t1.value_ > t2.value_ THEN 1
  ELSE 0

\* Number of non-zero counts.
RECURSIVE TreeSizeOrig(_)
TreeSizeOrig(hist) ==
  IF hist = <<>> THEN 0
  ELSE (IF hist[Len(hist)] # 0 THEN 1 ELSE 0) +
       TreeSizeOrig(SubSeq(hist, 1, Len(hist) - 1))

\* The bound without the - 1.
DepthLimitFeasibleMut(hist, limit) == TreeSizeOrig(hist) <= Pow2(limit)

\* assert(tree_size_orig <= (1 << (tree_depth_limit - 1)))
DepthLimitFeasible(hist, limit) == TreeSizeOrig(hist) <= Pow2(limit - 1)

\* The floor count_min is not applied.
RECURSIVE LeavesMut(_, _, _)
LeavesMut(hist, cmin, j) ==
  IF j >= Len(hist) THEN <<>>
  ELSE IF hist[j + 1] # 0
       THEN <<HuffmanTree(hist[j + 1], j, -1, -1)>> \o
            LeavesMut(hist, cmin, j + 1)
       ELSE LeavesMut(hist, cmin, j + 1)

\* One leaf per non-zero count, floored at count_min, in symbol order.
RECURSIVE Leaves(_, _, _)
Leaves(hist, cmin, j) ==
  IF j >= Len(hist) THEN <<>>
  ELSE IF hist[j + 1] # 0
       THEN <<HuffmanTree(IF hist[j + 1] < cmin THEN cmin ELSE hist[j + 1],
                          j, -1, -1)>> \o Leaves(hist, cmin, j + 1)
       ELSE Leaves(hist, cmin, j + 1)

\* qsort with CompareHuffmanTrees (a total order: the values are distinct).
RECURSIVE InsertSorted(_, _)
InsertSorted(sorted, t) ==
  IF sorted = <<>> THEN <<t>>
  ELSE IF CompareHuffmanTrees(t, Head(sorted)) < 0 THEN <<t>> \o sorted
  ELSE <<Head(sorted)>> \o InsertSorted(Tail(sorted), t)

RECURSIVE SortTrees(_)
SortTrees(trees) ==
  IF trees = <<>> THEN <<>>
  ELSE InsertSorted(SortTrees(SubSeq(trees, 1, Len(trees) - 1)),
                    trees[Len(trees)])

\* The insertion point: the first k with tree[k].total_count_ <= count.
RECURSIVE InsertionPoint(_, _, _)
InsertionPoint(tree, count, k) ==
  IF k >= Len(tree) THEN k
  ELSE IF tree[k + 1].total_count_ <= count THEN k
  ELSE InsertionPoint(tree, count, k + 1)

\* while (tree_size > 1): move the two last nodes to the pool and insert
\* their parent.  Returns the root and the pool.
RECURSIVE MergeLoop(_, _)
MergeLoop(tree, pool) ==
  IF Len(tree) <= 1 THEN [tree |-> tree, pool |-> pool]
  ELSE LET n == Len(tree)
           pool2 == pool \o <<tree[n], tree[n - 1]>>
           count == tree[n - 1].total_count_ + tree[n].total_count_
           rest == SubSeq(tree, 1, n - 2)
           k == InsertionPoint(rest, count, 0)
           parent == HuffmanTree(count, -1, Len(pool2) - 1, Len(pool2) - 2)
       IN MergeLoop(SubSeq(rest, 1, k) \o <<parent>> \o
                    SubSeq(rest, k + 1, n - 2), pool2)

\* The right subtree is entered one level too deep.
RECURSIVE SetBitDepthsMut(_, _, _, _)
SetBitDepthsMut(tree, pool, bit_depths, level) ==
  IF tree.pool_index_left_ >= 0
  THEN SetBitDepthsMut(pool[tree.pool_index_right_ + 1], pool,
                       SetBitDepthsMut(pool[tree.pool_index_left_ + 1], pool,
                                       bit_depths, level + 1),
                       level + 2)
  ELSE [bit_depths EXCEPT ![tree.value_ + 1] = level % 256]

RECURSIVE SetBitDepths(_, _, _, _)
SetBitDepths(tree, pool, bit_depths, level) ==
  IF tree.pool_index_left_ >= 0
  THEN SetBitDepths(pool[tree.pool_index_right_ + 1], pool,
                    SetBitDepths(pool[tree.pool_index_left_ + 1], pool,
                                 bit_depths, level + 1),
                    level + 1)
  ELSE [bit_depths EXCEPT ![tree.value_ + 1] = level % 256]

\* The body of one pass of the count_min loop, up to the depth test.
BuildTree(hist, cmin, bit_depths) ==
  LET tree == SortTrees(Leaves(hist, cmin, 0))
  IN IF Len(tree) > 1
     THEN LET m == MergeLoop(tree, <<>>)
          IN SetBitDepths(m.tree[1], m.pool, bit_depths, 0)
     ELSE IF Len(tree) = 1
     THEN [bit_depths EXCEPT ![tree[1].value_ + 1] = 1]
     ELSE bit_depths

\* max_depth: the largest entry of bit_depths (0 for no entries).
MaxDepth(bit_depths) ==
  LET depths == {bit_depths[p] : p \in 1..Len(bit_depths)} \cup {0}
  IN CHOOSE m \in depths : \A d \in depths : d <= m

\* An off-by-one in the depth test.
DepthFitsMut(bit_depths, limit) == MaxDepth(bit_depths) <= limit + 1

\* if (max_depth <= tree_depth_limit) break;
DepthFits(bit_depths, limit) == MaxDepth(bit_depths) <= limit

\* ------------------------------------------------ ConvertBitDepthsToSymbols
\* From webp/format_constants.h, included by huffman_encode.c.
MAX_ALLOWED_CODE_LENGTH == 15

kReversedBits == <<0, 8, 4, 12, 2, 10, 6, 14, 1, 9, 5, 13, 3, 11, 7, 15>>

RECURSIVE BitOr(_, _)
BitOr(a, b) ==
  IF a = 0 THEN b
  ELSE IF b = 0 THEN a
  ELSE (IF a % 2 = 1 \/ b % 2 = 1 THEN 1 ELSE 0) +
       2 * BitOr(a \div 2, b \div 2)

\* while (i < num_bits) of ReverseBits.  The values are uint32_t; a nibble
\* shifted by at most 12 stays below 2^16, so nothing wraps.
RECURSIVE ReverseLoop(_, _, _, _)
ReverseLoop(num_bits, bits, i, retval) ==
  IF i >= num_bits THEN retval
  ELSE LET i2 == i + 4
           shifted == (kReversedBits[(bits % 16) + 1] *
                       Pow2(MAX_ALLOWED_CODE_LENGTH + 1 - i2))
       IN ReverseLoop(num_bits, bits \div 16, i2, BitOr(retval, shifted))

\* A slip in the final shift: the surplus low bits are not dropped.
ReverseBitsMut(num_bits, bits) ==
  ReverseLoop(num_bits, bits, 0, 0) \div Pow2(MAX_ALLOWED_CODE_LENGTH - 3)

ReverseBits(num_bits, bits) ==
  ReverseLoop(num_bits, bits, 0, 0) \div
    Pow2(MAX_ALLOWED_CODE_LENGTH + 1 - num_bits)

\* depth_count[l] for l in 0..15, with depth_count[0] reset to 0.
DepthCount(lengths) ==
  [l \in 0..MAX_ALLOWED_CODE_LENGTH |->
     IF l = 0 THEN 0
     ELSE Cardinality({p \in 1..Len(lengths) : lengths[p] = l})]

\* next_code[0] = 0; next_code[i] = (next_code[i-1] + depth_count[i-1]) << 1
\* (uint32_t; with at most a few symbols the values stay far below 2^32).
RECURSIVE NextCodeAt(_, _)
NextCodeAt(depth_count, i) ==
  IF i = 0 THEN 0
  ELSE (NextCodeAt(depth_count, i - 1) + depth_count[i - 1]) * 2

NextCode(lengths) ==
  LET depth_count == DepthCount(lengths)
  IN [l \in 0..MAX_ALLOWED_CODE_LENGTH |-> NextCodeAt(depth_count, l)]

\* The last loop: codes[i] = ReverseBits(code_length, next_code[code_length]++)
RECURSIVE AssignCodes(_, _, _, _)
AssignCodes(lengths, i, next_code, out) ==
  IF i >= Len(lengths) THEN out
  ELSE LET code_length == lengths[i + 1]
       IN AssignCodes(lengths, i + 1,
                      [next_code EXCEPT ![code_length] = @ + 1],
                      Append(out, ReverseBits(code_length,
                                              next_code[code_length])))

ConvertBitDepthsToSymbols(lengths) ==
  AssignCodes(lengths, 0, NextCode(lengths), <<>>)

\* ------------------------------------------ VP8LCreateCompressedHuffmanTree
HuffmanTreeToken(code, extra_bits) == [code |-> code, extra_bits |-> extra_bits]

Literals(value, n) == [p \in 1..n |-> HuffmanTreeToken(value, 0)]

\* A boundary slip: seven repetitions go into one code 16.
RECURSIVE RepeatValuesMut(_, _)
RepeatValuesMut(repetitions, value) ==
  IF repetitions < 1 THEN <<>>
  ELSE IF repetitions < 3 THEN Literals(value, repetitions)
  ELSE IF repetitions < 8 THEN <<HuffmanTreeToken(16, repetitions - 3)>>
  ELSE <<HuffmanTreeToken(16, 3)>> \o RepeatValuesMut(repetitions - 6, value)

\* while (repetitions >= 1) of CodeRepeatedValues
RECURSIVE RepeatValues(_, _)
RepeatValues(repetitions, value) ==
  IF repetitions < 1 THEN <<>>
  ELSE IF repetitions < 3 THEN Literals(value, repetitions)
  ELSE IF repetitions < 7 THEN <<HuffmanTreeToken(16, repetitions - 3)>>
  ELSE <<HuffmanTreeToken(16, 3)>> \o RepeatValues(repetitions - 6, value)

CodeRepeatedValues(repetitions, value, prev) ==
  IF value # prev
  THEN <<HuffmanTreeToken(value, 0)>> \o RepeatValues(repetitions - 1, value)
  ELSE RepeatValues(repetitions, value)

\* A boundary slip: the long zero code starts one repetition too late.
RECURSIVE CodeRepeatedZerosMut(_)
CodeRepeatedZerosMut(repetitions) ==
  IF repetitions < 1 THEN <<>>
  ELSE IF repetitions < 3 THEN Literals(0, repetitions)
  ELSE IF repetitions < 11 THEN <<HuffmanTreeToken(17, repetitions - 3)>>
  ELSE IF repetitions < 139 THEN <<HuffmanTreeToken(18, repetitions - 12)>>
  ELSE <<HuffmanTreeToken(18, 127)>> \o CodeRepeatedZerosMut(repetitions - 138)

RECURSIVE CodeRepeatedZeros(_)
CodeRepeatedZeros(repetitions) ==
  IF repetitions < 1 THEN <<>>
  ELSE IF repetitions < 3 THEN Literals(0, repetitions)
  ELSE IF repetitions < 11 THEN <<HuffmanTreeToken(17, repetitions - 3)>>
  ELSE IF repetitions < 139 THEN <<HuffmanTreeToken(18, repetitions - 11)>>
  ELSE <<HuffmanTreeToken(18, 127)>> \o CodeRepeatedZeros(repetitions - 138)

\* while (k < depth_size && code_lengths[k] == value) ++k
RunEnd(lengths, value, k) ==
  IF \A j \in k..(Len(lengths) - 1) : lengths[j + 1] = value
  THEN Len(lengths)
  ELSE CHOOSE e \in k..(Len(lengths) - 1) :
         /\ lengths[e + 1] # value
         /\ \A j \in k..(e - 1) : lengths[j + 1] = value

\* int prev_value = 8
InitialPrevValueMut == 1

InitialPrevValue == 8

\* ------------------------------------------------------------------ inputs
Histograms ==
  UNION {[1..n -> 0..MaxCount] : n \in 1..MaxSymbols}
  \cup {[p \in 1..SkewSymbols |->
           IF c[p] = 0 THEN 0 ELSE IF c[p] = 1 THEN 1 ELSE Pow2(p - 1)] :
         c \in [1..SkewSymbols -> 0..2]}

RleHistograms ==
  UNION {[1..n -> 0..MaxRleCount] : n \in 1..MaxRleLen}
  \cup [1..LongRleLen -> {0, 2, 3}]

CodeLengthValues == {0, 1, 8, MAX_ALLOWED_CODE_LENGTH}

\* A run is <<value, length>>; length 0 is no run.
Runs ==
  (CodeLengthValues \X (0..MaxShortRun))
  \cup ({0} \X ({10, 11, 20} \cup ((MaxLongRun - 3)..MaxLongRun)))

RunSeq(r) == [p \in 1..r[2] |-> r[1]]

\* ------------------------------------------------- VP8LCreateHuffmanTree
Init ==
  /\ hist_in = <<>>
  /\ histogram = <<>>
  /\ tree_depth_limit = 1
  /\ code_lengths = <<>>
  /\ codes = <<>>
  /\ count_min = 0
  /\ tokens = <<>>
  /\ pos = 0
  /\ prev_value = InitialPrevValue
  /\ pc = "idle"

\* The caller passes a histogram, a depth limit and a tree whose
\* code_lengths are zeroed.
Call ==
  /\ pc = "idle"
  /\ \E h \in Histograms, limit \in 1..MaxLimit :
        /\ hist_in' = h
        /\ histogram' = h
        /\ tree_depth_limit' = limit
        /\ code_lengths' = Zeros(Len(h))
        /\ codes' = Zeros(Len(h))
  /\ pc' = "start"
  /\ UNCHANGED <<count_min, tokens, pos, prev_value>>

\* if (!OptimizeHuffmanForRle(num_symbols, histogram)) return 0;
Smooth ==
  /\ pc = "start"
  /\ histogram' = OptimizeHuffmanForRle(histogram)
  /\ pc' = "generate"
  /\ UNCHANGED <<hist_in, tree_depth_limit, count_min, code_lengths, codes,
                 tokens, pos, prev_value>>

\* The assertion before the loop fails (a build with assertions).
AssertFails ==
  /\ pc = "generate"
  /\ ~ DepthLimitFeasible(histogram, tree_depth_limit)
  /\ pc' = "aborted"
  /\ UNCHANGED <<histogram, hist_in, tree_depth_limit, count_min,
                 code_lengths, codes, tokens, pos, prev_value>>

\* The assertion holds, or is compiled out (NDEBUG): count_min = 1.
EnterLoop ==
  /\ pc = "generate"
  /\ count_min' = 1
  /\ pc' = "loop"
  /\ UNCHANGED <<histogram, hist_in, tree_depth_limit, code_lengths, codes,
                 tokens, pos, prev_value>>

\* One pass of the loop up to the depth test: the tree for count_min is
\* built and its leaf depths are written to bit_depths.
BuildPass ==
  /\ pc = "loop"
  /\ code_lengths' = BuildTree(histogram, count_min, code_lengths)
  /\ pc' = "test"
  /\ UNCHANGED <<histogram, hist_in, tree_depth_limit, count_min, codes,
                 tokens, pos, prev_value>>

\* The tree is too deep: count_min *= 2 and the loop goes round.
LoopRetry ==
  /\ pc = "test"
  /\ ~ DepthFits(code_lengths, tree_depth_limit)
  /\ count_min * 2 <= MaxCountMin
  /\ count_min' = count_min * 2
  /\ pc' = "loop"
  /\ UNCHANGED <<histogram, hist_in, tree_depth_limit, code_lengths, codes,
                 tokens, pos, prev_value>>

\* The tree fits: break, free(tree), return 1.
LoopBreak ==
  /\ pc = "test"
  /\ DepthFits(code_lengths, tree_depth_limit)
  /\ pc' = "convert"
  /\ UNCHANGED <<histogram, hist_in, tree_depth_limit, count_min,
                 code_lengths, codes, tokens, pos, prev_value>>

\* ConvertBitDepthsToSymbols(tree); return 1;
Convert ==
  /\ pc = "convert"
  /\ codes' = ConvertBitDepthsToSymbols(code_lengths)
  /\ pc' = "returned"
  /\ UNCHANGED <<histogram, hist_in, tree_depth_limit, count_min,
                 code_lengths, tokens, pos, prev_value>>

Next ==
  \/ Call \/ Smooth \/ AssertFails \/ EnterLoop
  \/ BuildPass \/ LoopRetry \/ LoopBreak \/ Convert

Spec == Init /\ [][Next]_vars

\* The call runs to completion on its thread, so a step of the count_min
\* loop that is enabled is taken.  BuildPass is the only step of Next from
\* "loop" to "test" and is enabled whenever pc = "loop"; it is named here by
\* that change of pc, which TLC can test without building the tree.
BuildPassTaken == pc = "loop" /\ pc' = "test"

FairSpec ==
  Spec /\ WF_pc(BuildPassTaken) /\ WF_vars(LoopRetry) /\ WF_vars(LoopBreak)

\* --------------------------------------- OptimizeHuffmanForRle, applied twice
InitRle ==
  /\ hist_in \in RleHistograms
  /\ histogram = hist_in
  /\ tree_depth_limit = 1
  /\ code_lengths = <<>>
  /\ codes = <<>>
  /\ count_min = 0
  /\ tokens = <<>>
  /\ pos = 0
  /\ prev_value = InitialPrevValue
  /\ pc = "rle"

SmoothOnce ==
  /\ pc = "rle"
  /\ histogram' = OptimizeHuffmanForRle(histogram)
  /\ pc' = "rle_once"
  /\ UNCHANGED <<hist_in, tree_depth_limit, count_min, code_lengths, codes,
                 tokens, pos, prev_value>>

\* The second application, to the output of the first.
SmoothAgain ==
  /\ pc = "rle_once"
  /\ histogram' = OptimizeHuffmanForRle(histogram)
  /\ pc' = "rle_twice"
  /\ UNCHANGED <<hist_in, tree_depth_limit, count_min, code_lengths, codes,
                 tokens, pos, prev_value>>

NextRle == SmoothOnce \/ SmoothAgain

SpecRle == InitRle /\ [][NextRle]_vars

\* ------------------------------------------ VP8LCreateCompressedHuffmanTree
InitTok ==
  /\ \E r1 \in Runs, r2 \in Runs, r3 \in Runs :
        /\ r1[2] > 0
        /\ r2[2] = 0 => r3[2] = 0
        /\ code_lengths = RunSeq(r1) \o RunSeq(r2) \o RunSeq(r3)
  /\ hist_in = <<>>
  /\ histogram = <<>>
  /\ tree_depth_limit = MAX_ALLOWED_CODE_LENGTH
  /\ codes = <<>>
  /\ count_min = 0
  /\ tokens = <<>>
  /\ pos = 0
  /\ prev_value = InitialPrevValue
  /\ pc = "tokenize"

\* One pass of while (i < depth_size) on a run of zeros.
TokenizeZeros ==
  /\ pc = "tokenize"
  /\ pos < Len(code_lengths)
  /\ code_lengths[pos + 1] = 0
  /\ LET runs == RunEnd(code_lengths, 0, pos + 1) - pos
     IN /\ tokens' = tokens \o CodeRepeatedZeros(runs)
        /\ pos' = pos + runs
  /\ UNCHANGED <<pc, histogram, hist_in, tree_depth_limit, count_min,
                 code_lengths, codes, prev_value>>

\* One pass of while (i < depth_size) on a run of a non-zero length.
TokenizeValues ==
  /\ pc = "tokenize"
  /\ pos < Len(code_lengths)
  /\ code_lengths[pos + 1] # 0
  /\ LET value == code_lengths[pos + 1]
         runs == RunEnd(code_lengths, value, pos + 1) - pos
     IN /\ tokens' = tokens \o CodeRepeatedValues(runs, value, prev_value)
        /\ prev_value' = value
        /\ pos' = pos + runs
  /\ UNCHANGED <<pc, histogram, hist_in, tree_depth_limit, count_min,
                 code_lengths, codes>>

\* return (int)(tokens - starting_token);
TokenizeReturn ==
  /\ pc = "tokenize"
  /\ pos >= Len(code_lengths)
  /\ pc' = "tokens_returned"
  /\ UNCHANGED <<histogram, hist_in, tree_depth_limit, count_min,
                 code_lengths, codes, tokens, pos, prev_value>>

NextTok == TokenizeZeros \/ TokenizeValues \/ TokenizeReturn

SpecTok == InitTok /\ [][NextTok]_vars

\* ================================================================= claims
Returned == pc \in {"convert", "returned"}

Used(lengths) == {p \in 1..Len(lengths) : lengths[p] # 0}

\* Sum over the symbols of S of 2^-lengths[p], in units of 2^-15.
RECURSIVE KraftSum(_, _)
KraftSum(lengths, S) ==
  IF S = {} THEN 0
  ELSE LET p == CHOOSE q \in S : TRUE
       IN Pow2(MAX_ALLOWED_CODE_LENGTH - lengths[p]) +
          KraftSum(lengths, S \ {p})

\* C1: when GenerateOptimalTree has returned for a depth limit that is
\* feasible for its histogram, no code length exceeds tree_depth_limit.
C1_DepthWithinLimit ==
  (Returned /\ (\/ DepthLimitFeasible(histogram, tree_depth_limit)
                \/ DepthLimitFeasible(hist_in, tree_depth_limit)))
  => \A p \in 1..Len(code_lengths) : code_lengths[p] <= tree_depth_limit

\* A feasible call that needed a retry and returned at the limit.
C1_Witness ==
  /\ pc = "returned"
  /\ DepthLimitFeasible(histogram, tree_depth_limit)
  /\ count_min > 1
  /\ MaxDepth(code_lengths) = tree_depth_limit

\* C2: for a feasible depth limit the count_min loop always reaches a tree
\* that is no deeper than the limit and leaves the loop.
C2_RetryTerminates ==
  (pc = "loop" /\ DepthLimitFeasible(histogram, tree_depth_limit))
  ~> (pc = "convert" /\ MaxDepth(code_lengths) <= tree_depth_limit)

\* A feasible call that left the loop after two retries.
C2_Witness ==
  /\ pc = "convert"
  /\ DepthLimitFeasible(histogram, tree_depth_limit)
  /\ count_min >= 4

\* C3: after GenerateOptimalTree returns for a feasible limit, the Kraft sum
\* over the used symbols is at most 1, exactly 1 when more than one symbol
\* is used, and a single used symbol has length 1.
C3_Kraft ==
  (Returned /\ DepthLimitFeasible(histogram, tree_depth_limit))
  => LET used == Used(histogram)
         sum == KraftSum(code_lengths, used)
     IN /\ sum <= Pow2(MAX_ALLOWED_CODE_LENGTH)
        /\ Cardinality(used) > 1 => sum = Pow2(MAX_ALLOWED_CODE_LENGTH)
        /\ Cardinality(used) = 1 => \A p \in used : code_lengths[p] = 1

\* A complete tree over several symbols of unequal depth, built on a retry.
C3_Witness ==
  /\ pc = "returned"
  /\ DepthLimitFeasible(histogram, tree_depth_limit)
  /\ Cardinality(Used(histogram)) > 2
  /\ count_min > 1
  /\ \E p, q \in Used(histogram) : code_lengths[p] < code_lengths[q]

\* The decoder of the token stream: literal v is one length v, 16 repeats
\* the last non-zero length (8 before any), 17 and 18 are runs of zeros.
RECURSIVE ExpandTokens(_, _)
ExpandTokens(toks, prev) ==
  IF toks = <<>> THEN <<>>
  ELSE LET t == Head(toks)
       IN IF t.code = 16
          THEN [p \in 1..(3 + t.extra_bits) |-> prev] \o
               ExpandTokens(Tail(toks), prev)
          ELSE IF t.code = 17
          THEN [p \in 1..(3 + t.extra_bits) |-> 0] \o
               ExpandTokens(Tail(toks), prev)
          ELSE IF t.code = 18
          THEN [p \in 1..(11 + t.extra_bits) |-> 0] \o
               ExpandTokens(Tail(toks), prev)
          ELSE <<t.code>> \o
               ExpandTokens(Tail(toks), IF t.code # 0 THEN t.code ELSE prev)

TokenInWireRange(t) ==
  /\ t.code \in 0..18
  /\ t.code <= 15 => t.extra_bits = 0
  /\ t.code = 16 => t.extra_bits \in 0..3
  /\ t.code = 17 => t.extra_bits \in 0..7
  /\ t.code = 18 => t.extra_bits \in 0..127

\* C4: the tokens written so far are in the wire range and expand to
\* exactly the code lengths consumed so far; on return that is the whole
\* array.
C4_TokenRoundTrip ==
  /\ \A n \in 1..Len(tokens) : TokenInWireRange(tokens[n])
  /\ ExpandTokens(tokens, 8) = SubSeq(code_lengths, 1, pos)
  /\ pc = "tokens_returned" => ExpandTokens(tokens, 8) = code_lengths

\* A returned stream that uses the three repeat codes.
C4_Witness ==
  /\ pc = "tokens_returned"
  /\ \E n \in 1..Len(tokens) : tokens[n].code = 16
  /\ \E n \in 1..Len(tokens) : tokens[n].code = 17
  /\ \E n \in 1..Len(tokens) : tokens[n].code = 18

\* The n low bits of c in reverse order.
RECURSIVE ReverseWithin(_, _)
ReverseWithin(c, n) ==
  IF n = 0 THEN 0
  ELSE (c % 2) * Pow2(n - 1) + ReverseWithin(c \div 2, n - 1)

\* The symbols in canonical order: by length, then by index.
CanonicalRank(lengths, p) ==
  Cardinality({q \in Used(lengths) :
                 \/ lengths[q] < lengths[p]
                 \/ (lengths[q] = lengths[p] /\ q < p)})

\* A canonical decoder built from the lengths alone, reading bits least
\* significant first; -1 when no symbol is found.
RECURSIVE CanonicalDecode(_, _, _, _, _, _)
CanonicalDecode(lengths, bits, len, code, first, index) ==
  IF len > MAX_ALLOWED_CODE_LENGTH THEN -1
  ELSE LET c == code + (bits % 2)
           count == Cardinality({q \in Used(lengths) : lengths[q] = len})
       IN IF c - count < first
          THEN LET rank == index + (c - first)
                   hits == {q \in Used(lengths) :
                              CanonicalRank(lengths, q) = rank}
               IN IF hits = {} THEN -1 ELSE (CHOOSE q \in hits : TRUE) - 1
          ELSE CanonicalDecode(lengths, bits \div 2, len + 1, 2 * c,
                               2 * (first + count), index + count)

\* C5: a canonical decoder recovers every used symbol from its code; the
\* codes reversed within their length increase with the symbol index inside
\* a length class, and no codeword is a prefix of another.
C5_CanonicalRoundTrip ==
  pc = "returned" =>
    LET used == Used(code_lengths)
        canon(p) == ReverseWithin(codes[p], code_lengths[p])
    IN /\ \A p \in used :
            /\ codes[p] < Pow2(code_lengths[p])
            /\ CanonicalDecode(code_lengths, codes[p], 1, 0, 0, 0) = p - 1
       /\ \A p, q \in used :
            (p < q /\ code_lengths[p] = code_lengths[q]) => canon(p) < canon(q)
       /\ \A p, q \in used :
            (p # q /\ code_lengths[p] <= code_lengths[q]) =>
              canon(q) \div Pow2(code_lengths[q] - code_lengths[p]) # canon(p)

\* Codes of up to five bits over at least five symbols.
C5_Witness ==
  /\ pc = "returned"
  /\ Cardinality(Used(code_lengths)) >= 5
  /\ MaxDepth(code_lengths) = 5

\* C6 as stated: a symbol has a code exactly when its count in the
\* histogram passed in was non-zero.
C6_Original ==
  (pc = "returned" /\ DepthLimitFeasible(hist_in, tree_depth_limit))
  => \A p \in 1..Len(hist_in) : code_lengths[p] > 0 <=> hist_in[p] # 0

\* C6 amended: a symbol has a code exactly when its count is non-zero in
\* the histogram as rewritten by OptimizeHuffmanForRle, and every symbol
\* used in the histogram passed in has one.
C6_Amended ==
  pc = "returned"
  => \A p \in 1..Len(hist_in) :
       /\ code_lengths[p] > 0 <=> histogram[p] # 0
       /\ hist_in[p] # 0 => code_lengths[p] > 0

\* An unused symbol of the input that received a code.
C6_Witness ==
  /\ pc = "returned"
  /\ DepthLimitFeasible(hist_in, tree_depth_limit)
  /\ \E p \in 1..Len(hist_in) : hist_in[p] = 0 /\ code_lengths[p] > 0

\* C7 as stated: the second application leaves the output of the first
\* unchanged.
C7_Original ==
  pc = "rle_twice" => histogram = OptimizeHuffmanForRle(hist_in)

\* C7 amended: the second application leaves the output of the first
\* unchanged when every count of the input is below 4.
C7_Amended ==
  (pc = "rle_twice" /\ \A p \in 1..Len(hist_in) : hist_in[p] < 4)
  => histogram = OptimizeHuffmanForRle(hist_in)

\* Counts below 4 that the first application did rewrite, next to a run of
\* five zeros that it had to leave alone.
C7_Witness ==
  /\ pc = "rle_twice"
  /\ \A p \in 1..Len(hist_in) : hist_in[p] < 4
  /\ histogram # hist_in
  /\ \E p \in 1..(Len(hist_in) - 4) : \A q \in p..(p + 4) : histogram[q] = 0

\* Exactly 20 zeros at the start, then a non-zero length, run consumed.
LeadingTwentyZeros ==
  /\ Len(code_lengths) > 20
  /\ \A p \in 1..20 : code_lengths[p] = 0
  /\ code_lengths[21] # 0
  /\ pos >= 20

\* C8 as stated: the run of 20 zeros is written as {18,7}, {0,0}, {0,0}.
C8_Original ==
  LeadingTwentyZeros
  => /\ Len(tokens) >= 3
     /\ SubSeq(tokens, 1, 3) = <<HuffmanTreeToken(18, 7),
                                 HuffmanTreeToken(0, 0),
                                 HuffmanTreeToken(0, 0)>>

\* C8 amended: the run of 20 zeros is written as the single token {18,9}.
C8_Amended ==
  LeadingTwentyZeros
  => /\ Len(tokens) >= 1
     /\ tokens[1] = HuffmanTreeToken(18, 9)
     /\ pos = 20 => Len(tokens) = 1
     /\ Len(tokens) >= 2 => tokens[2].code \in 1..16

C8_Witness == LeadingTwentyZeros /\ pc = "tokens_returned"

\* C9 as stated: [1,1,1,1] with limit 2 never fails the assertion and
\* returns [2,2,2,2].
C9_Original ==
  (hist_in = <<1, 1, 1, 1>> /\ tree_depth_limit = 2)
  => /\ pc # "aborted"
     /\ Returned => code_lengths = <<2, 2, 2, 2>>

\* C9 amended: [1,1,1,1] with limit 2 violates the assertion before the
\* loop (4 > 2^1); where the assertion is compiled out the first pass of
\* the loop returns [2,2,2,2].
C9_Amended ==
  (hist_in = <<1, 1, 1, 1>> /\ tree_depth_limit = 2)
  => /\ pc = "generate" => ~ DepthLimitFeasible(histogram, tree_depth_limit)
     /\ Returned => (code_lengths = <<2, 2, 2, 2>> /\ count_min = 1)

C9_Witness ==
  /\ hist_in = <<1, 1, 1, 1>>
  /\ tree_depth_limit = 2
  /\ pc = "returned"
  /\ code_lengths = <<2, 2, 2, 2>>

\* The tokens of non-zero runs have codes 1..16.
ValueTokens == {n \in 1..Len(tokens) : tokens[n].code \in 1..16}

FirstValueToken == tokens[CHOOSE n \in ValueTokens : \A m \in ValueTokens : n <= m]

FirstValueIndex ==
  CHOOSE p \in Used(code_lengths) : \A q \in Used(code_lengths) : p <= q

FirstValue == code_lengths[FirstValueIndex]

FirstValueRun == RunEnd(code_lengths, FirstValue, FirstValueIndex) -
                 (FirstValueIndex - 1)

\* C10 as stated: the first run of non-zero lengths starts with its literal
\* token, whatever its value.
C10_Original ==
  (pc = "tokens_returned" /\ Used(code_lengths) # {})
  => FirstValueToken = HuffmanTreeToken(FirstValue, 0)

\* C10 amended: the first run of non-zero lengths starts with its literal
\* token when its value is not 8; a first run of 8s starts with its
\* literal only when it is shorter than 3, and with a code 16 otherwise.
C10_Amended ==
  (pc = "tokens_returned" /\ Used(code_lengths) # {})
  => /\ FirstValue # 8 => FirstValueToken = HuffmanTreeToken(FirstValue, 0)
     /\ (FirstValue = 8 /\ FirstValueRun < 3)
          => FirstValueToken = HuffmanTreeToken(8, 0)
     /\ (FirstValue = 8 /\ FirstValueRun >= 3) => FirstValueToken.code = 16

\* A first run of at least three equal lengths other than 8, after zeros.
C10_Witness ==
  /\ pc = "tokens_returned"
  /\ Used(code_lengths) # {}
  /\ FirstValue # 8
  /\ FirstValueIndex > 1
  /\ FirstValueRun >= 3

====
